---- MODULE Spec2Model ----
(***************************************************************************)
(* Model of bambi/backends.py: the PyMC3 back-end that turns the terms of  *)
(* a mixed-effects model into a PyMC3 model (build) and samples it (run).  *)
(*                                                                         *)
(* A tensor (numpy array) is a record [shape, nz]: its shape and the set   *)
(* of index tuples that hold a nonzero entry.  A model scope (pm.Model) is *)
(* the sequence of the variables registered in it, in registration order.  *)
(* mu is the sequence of the contributions added to the float 0.           *)
(***************************************************************************)
EXTENDS Integers, Sequences, FiniteSets, TLC

(* ------------------------------ bounds -------------------------------- *)

\* number of observations (rows of every design tensor)
NRows == 2
\* largest number of columns of a term's design tensor
MaxCols == 2
\* largest number of levels of a split_by factor
MaxLevels == 2
\* largest draw count a caller asks run() for
MaxSamples == 1

(* --------------------------- program constants ------------------------ *)

\* run(): samples = kwargs.pop('samples', 1000)
DefaultSamples == 1000
\* build(): sigma_dist_args = {'beta': 10}
DefaultBeta == 10

(* ------------------------------ tensors ------------------------------- *)

Last(s) == s[Len(s)]

Front(s) == SubSeq(s, 1, Len(s) - 1)

RECURSIVE Indices(_)
\* every index tuple of an array of the given shape
Indices(shape) ==
    IF shape = <<>> THEN {<<>>}
    ELSE {<<i>> \o rest : i \in 1..Head(shape), rest \in Indices(Tail(shape))}

\* an array of the given shape without a zero entry
Ones(shape) == [shape |-> shape, nz |-> Indices(shape)]

RECURSIVE KeepDims(_, _)
\* the index tuple idx without the positions whose dimension is 1
KeepDims(shape, idx) ==
    IF shape = <<>> THEN <<>>
    ELSE (IF Head(shape) # 1 THEN <<Head(idx)>> ELSE <<>>)
             \o KeepDims(Tail(shape), Tail(idx))

\* np.squeeze(values): drop every dimension of size 1
squeeze(v) ==
    [shape |-> SelectSeq(v.shape, LAMBDA d : d # 1),
     nz    |-> {KeepDims(v.shape, idx) : idx \in v.nz}]

\* group_items with no column left out
group_items_all(v, i) == 1..v.shape[2]

\* values[:, :, i].any(0): the columns with a nonzero row in slice i
group_items(v, i) ==
    {c \in 1..v.shape[2] : \E r \in 1..v.shape[1] : <<r, c, i>> \in v.nz}

\* values[:, group_items, i]: the rows x active columns of slice i
selected(v, i) ==
    LET act == group_items(v, i)
        rank(c) == Cardinality({d \in act : d <= c})
    IN  [shape |-> <<v.shape[1], Cardinality(act)>>,
         nz    |-> {<<idx[1], rank(idx[2])>> :
                       idx \in {j \in v.nz : j[3] = i}}]

(* --------------------------- model inputs ----------------------------- *)

\* the term objects and the prior 'args' dicts the caller holds
TermIds == {1, 2}

ArgIds == {1, 2}

\* the label of each term object
Labels == <<"x", "x_a">>

\* the names of the levels of a split_by factor, in order
LevelNames == <<"a", "b", "c", "d">>

\* hasattr(pm, dist) holds for these names
KnownFamilies == {"Normal", "HalfCauchy", "HalfNormal", "Uniform"}

\* the family names a prior specification may carry
Families == {"Normal", "NotARealDistribution"}

\* t.split_by is None
None == [none |-> TRUE]

\* a value of a distribution parameter: absent, or a variable of a scope
\* (live: of the current pm.Model; not live: of a replaced pm.Model)
Absent == [kind |-> "absent", name |-> "", live |-> FALSE]

RV(name) == [kind |-> "rv", name |-> name, live |-> TRUE]

\* the 'sigma' entries a prior may carry: complete, unknown family, partial
SigmaDicts ==
    {[name |-> "HalfNormal", args |-> [sd |-> 1]],
     [name |-> "NotARealDistribution", args |-> [sd |-> 1]],
     [name |-> "HalfNormal"],
     [args |-> [sd |-> 1]]}

\* the prior specifications of a term whose 'args' is the dict aid
Priors(aid) ==
    {[name |-> f, args |-> aid] : f \in Families}
      \cup {[name |-> f, args |-> aid, sigma |-> s] :
               f \in Families, s \in SigmaDicts}

\* a few prior specifications: a known family, an unknown family, and a
\* known family with a 'sigma' entry of an unknown family
PlainPriors(aid) ==
    {[name |-> f, args |-> aid] : f \in Families}
      \cup {[name |-> "Normal", args |-> aid,
             sigma |-> [name |-> "NotARealDistribution", args |-> [sd |-> 1]]]}

\* the design tensor of a term crossed with a split_by factor: row r holds
\* its one nonzero entry at column cell[r][1] of level cell[r][2]
Design(k, L, cell) ==
    [shape |-> <<NRows, k, L>>,
     nz    |-> {<<r, cell[r][1], cell[r][2]>> : r \in 1..NRows}]

\* cell a comes before cell b: by column, then by level
Before(a, b) == a[1] < b[1] \/ (a[1] = b[1] /\ a[2] <= b[2])

\* every such tensor of k columns and L levels whose rows are sorted by cell
Designs(k, L) ==
    {Design(k, L, cell) :
        cell \in {c \in [1..NRows -> (1..k) \X (1..L)] :
                     \A r \in 1..(NRows - 1) : Before(c[r], c[r + 1])}}

\* the one that takes columns and levels in turn, row by row
Diagonal(k, L) ==
    Design(k, L, [r \in 1..NRows |-> <<((r - 1) % k) + 1, ((r - 1) % L) + 1>>])

\* a term object
Term(label, values, random, levels, prior) ==
    [label |-> label, values |-> values, random |-> random,
     split_by |-> IF levels = 0 THEN None
                  ELSE [levels |-> SubSeq(LevelNames, 1, levels)],
     prior |-> prior]

\* fixed terms of every shape, with and without split_by
FixedTerms(label, aid) ==
    {Term(label, Ones(<<NRows, k>>), FALSE, 0, [name |-> f, args |-> aid]) :
        k \in 1..MaxCols, f \in Families}
      \cup
    {Term(label, Ones(<<NRows, sh[1], sh[2]>>), FALSE, sh[2],
          [name |-> f, args |-> aid]) :
        sh \in (1..MaxCols) \X (1..MaxLevels), f \in Families}

\* random terms without split_by, over the given priors
RandomPlain(label, priors) ==
    {Term(label, Ones(<<NRows, k>>), TRUE, 0, p) :
        k \in 1..MaxCols, p \in priors}

\* random terms with split_by, over the given tensors and priors
RandomSplit(label, tensors, priors) ==
    {Term(label, v, TRUE, Last(v.shape), p) : v \in tensors, p \in priors}

AllShapes == {Diagonal(sh[1], sh[2]) : sh \in (1..MaxCols) \X (1..MaxLevels)}

\* the second term object of the caller: a fixed term with an 'args' dict
\* of its own
FixedCompanions ==
    {Term(Labels[2], Ones(<<NRows, 1>>), FALSE, 0, [name |-> f, args |-> 2]) :
        f \in Families}

\* or a random term that shares the 'args' dict of the first term
Companions ==
    FixedCompanions
      \cup {Term(Labels[2], Ones(<<NRows, MaxCols>>), TRUE, 0,
                 [name |-> "Normal", args |-> 1])}

\* terms of every kind and shape
GeneralTerms ==
    FixedTerms(Labels[1], 1)
      \cup RandomPlain(Labels[1], PlainPriors(1))
      \cup RandomSplit(Labels[1], AllShapes, PlainPriors(1))

AllDesigns == UNION {Designs(sh[1], sh[2]) :
                        sh \in (1..MaxCols) \X (1..MaxLevels)}

\* random terms with split_by over every design tensor
SplitTerms == RandomSplit(Labels[1], AllDesigns, {[name |-> "Normal", args |-> 1]})

\* random terms over every prior specification
PriorTerms ==
    RandomPlain(Labels[1], Priors(1))
      \cup RandomSplit(Labels[1], {Diagonal(MaxCols, MaxLevels)}, Priors(1))

\* model.terms.values(): the term objects of a model, in iteration order
Models ==
    {<<i>> : i \in TermIds} \cup {p \in TermIds \X TermIds : p[1] # p[2]}

\* the keyword arguments of a call of run()
Kwargs ==
    {<<>>} \cup {[samples |-> s, njobs |-> 2] : s \in 1..MaxSamples}

(* ------------------------------ state --------------------------------- *)

VARIABLES
    terms,          \* the caller's term objects: id -> Term
    args,           \* the caller's prior 'args' dicts: id -> dict
    model,          \* self.model: the variables registered in the pm.Model
    mu,             \* self.mu: the contributions added so far
    dists,          \* self.dists
    shared_params,  \* self.shared_params
    trace,          \* self.trace
    lastCall        \* the last call of the caller and how it ended

vars == <<terms, args, model, mu, dists, shared_params, trace, lastCall>>

\* self.trace before the first run()
NoTrace == [kind |-> "unset"]

\* the value a call without a return statement returns
NoneValue == [kind |-> "None"]

\* the names registered in a pm.Model
Names(scope) == {scope[i].name : i \in 1..Len(scope)}

\* the registration of a name in a pm.Model
Var(scope, name) ==
    scope[CHOOSE i \in 1..Len(scope) : scope[i].name = name]

(* ------------------------------ reset --------------------------------- *)

\* a dict whose 'sd' variable belongs to a pm.Model that has been replaced
Expire(a) == IF a.sd.kind = "rv" THEN [a EXCEPT !.sd.live = FALSE] ELSE a

\* reset() that leaves mu as it is
reset_keep_mu(b) ==
    [b EXCEPT !.model = <<>>, !.dists = <<>>, !.shared_params = <<>>,
              !.args = [a \in ArgIds |-> Expire(b.args[a])]]

\* reset(): a new pm.Model, mu = 0., dists = {}, shared_params = {}
reset(b) ==
    [b EXCEPT !.model = <<>>, !.mu = <<>>, !.dists = <<>>,
              !.shared_params = <<>>,
              !.args = [a \in ArgIds |-> Expire(b.args[a])]]

(* --------------------------- _build_dist ------------------------------ *)

\* the backend, the caller's objects and the pending exception, as one
\* record that the steps of a call hand on
Raise(b, e) == [b EXCEPT !.err = e]

\* a scope that lets a new variable take the place of the one that holds
\* its name
Register_replace(b, v) ==
    IF v.name \in Names(b.model)
    THEN [b EXCEPT !.model =
            [i \in 1..Len(@) |-> IF @[i].name = v.name THEN v ELSE @[i]]]
    ELSE [b EXCEPT !.model = Append(@, v)]

\* dist(label, **kwargs) inside `with self.model`: the pm.Model takes the
\* new variable under its name and rejects a name it already holds
Register(b, v) ==
    IF v.name \in Names(b.model) THEN Raise(b, "DuplicateName")
    ELSE [b EXCEPT !.model = Append(@, v)]

\* _build_dist(label, dist, **kwargs) for a dist given by name
build_dist(b, label, dist, shape, kwargs) ==
    IF dist \notin KnownFamilies THEN Raise(b, "UnknownDistribution")
    ELSE Register(b, [name |-> label, family |-> dist, shape |-> shape,
                      params |-> kwargs, observed |-> FALSE])

\* self.mu += pm.dot(mat, vec), with [:, None] when col.  strict: the
\* tensor library checks the operand shapes when the expression is built
dot_add(b, mat, vec, col, strict) ==
    LET size == Var(b.model, vec).shape[1]
        res  == Front(mat.shape)
    IN  IF strict /\ Last(mat.shape) # size THEN Raise(b, "ShapeMismatch")
        ELSE IF col /\ res = <<>> THEN Raise(b, "IndexError")
        ELSE [b EXCEPT !.mu = Append(@,
                 [mat |-> mat, vec |-> vec, size |-> size,
                  shape |-> IF col THEN <<Head(res), 1>> \o Tail(res)
                            ELSE res])]

(* ------------------------------ build --------------------------------- *)

\* the sigma prior with each missing field replaced by its default
sigma_prior_merge(prior) ==
    LET given == IF "sigma" \in DOMAIN prior THEN prior.sigma ELSE <<>>
    IN  [name |-> IF "name" \in DOMAIN given THEN given.name
                  ELSE "HalfCauchy",
         args |-> IF "args" \in DOMAIN given THEN given.args
                  ELSE [beta |-> DefaultBeta]]

\* the try/except of build(): the sigma prior of a random term
sigma_prior(prior) ==
    IF /\ "sigma" \in DOMAIN prior
       /\ "name" \in DOMAIN prior.sigma
       /\ "args" \in DOMAIN prior.sigma
    THEN [name |-> prior.sigma.name, args |-> prior.sigma.args]
    ELSE [name |-> "HalfCauchy", args |-> [beta |-> DefaultBeta]]

\* a random term without split_by whose sigma is not handed to u
random_plain_no_sd(b, id, strict) ==
    LET t     == b.terms[id]
        sg    == sigma_prior(t.prior)
        b1    == build_dist(b, "sigma_" \o t.label, sg.name, <<>>, sg.args)
        b3    == build_dist(b1, "u_" \o t.label, t.prior.name,
                            <<t.values.shape[2]>>, b1.args[t.prior.args])
    IN  IF b1.err # "none" THEN b1
        ELSE IF b3.err # "none" THEN b3
        ELSE dot_add(b3, t.values, "u_" \o t.label, FALSE, strict)

\* a random term without split_by
random_plain(b, id, strict) ==
    LET t     == b.terms[id]
        sg    == sigma_prior(t.prior)
        aid   == t.prior.args
        b1    == build_dist(b, "sigma_" \o t.label, sg.name, <<>>, sg.args)
        b2    == [b1 EXCEPT !.args[aid].sd = RV("sigma_" \o t.label)]
        b3    == build_dist(b2, "u_" \o t.label, t.prior.name,
                            <<t.values.shape[2]>>, b2.args[aid])
    IN  IF b1.err # "none" THEN b1
        ELSE IF b3.err # "none" THEN b3
        ELSE dot_add(b3, t.values, "u_" \o t.label, FALSE, strict)

\* one pass of the loop that leaves out a level without an active column
random_level_skip(b, id, i, strict) ==
    LET t    == b.terms[id]
        sg   == sigma_prior(t.prior)
        sel  == selected(t.values, i)
        name == t.label \o "_" \o t.split_by.levels[i]
        b1   == build_dist(b, "sigma_" \o name, sg.name, <<>>, sg.args)
        b2   == build_dist(b1, "u_" \o name, t.prior.name,
                           <<sel.shape[2]>>, b1.args[t.prior.args])
    IN  IF Len(t.values.shape) # 3 \/ i > Len(t.split_by.levels)
        THEN Raise(b, "IndexError")
        ELSE IF sel.shape[2] = 0 THEN b
        ELSE IF b1.err # "none" THEN b1
        ELSE IF b2.err # "none" THEN b2
        ELSE dot_add(b2, sel, "u_" \o name, TRUE, strict)

\* one pass of the loop over the levels of a random term with split_by
random_level(b, id, i, strict) ==
    LET t    == b.terms[id]
        sg   == sigma_prior(t.prior)
        sel  == selected(t.values, i)
        name == t.label \o "_" \o t.split_by.levels[i]
        b1   == build_dist(b, "sigma_" \o name, sg.name, <<>>, sg.args)
        b2   == build_dist(b1, "u_" \o name, t.prior.name,
                           <<sel.shape[2]>>, b1.args[t.prior.args])
    IN  IF Len(t.values.shape) # 3 \/ i > Len(t.split_by.levels)
        THEN Raise(b, "IndexError")
        ELSE IF b1.err # "none" THEN b1
        ELSE IF b2.err # "none" THEN b2
        ELSE dot_add(b2, sel, "u_" \o name, TRUE, strict)

RECURSIVE random_split(_, _, _, _)
\* for i in range(t.values.shape[-1]), from level i on
random_split(b, id, i, strict) ==
    IF b.err # "none" \/ i > Last(b.terms[id].values.shape) THEN b
    ELSE random_split(random_level(b, id, i, strict), id, i + 1, strict)

\* a fixed term
fixed(b, id, strict) ==
    LET t  == b.terms[id]
        b1 == build_dist(b, "b_" \o t.label, t.prior.name,
                         <<Last(t.values.shape)>>, b.args[t.prior.args])
        b2 == IF t.split_by # None
              THEN [b1 EXCEPT !.terms[id].values = squeeze(@)]
              ELSE b1
    IN  IF b1.err # "none" THEN b1
        ELSE dot_add(b2, b2.terms[id].values, "b_" \o t.label, TRUE, strict)

\* the body of the loop over model.terms.values()
term(b, id, strict) ==
    LET t == b.terms[id]
    IN  IF Len(t.values.shape) < 2 THEN Raise(b, "IndexError")
        ELSE IF t.random
             THEN IF t.split_by = None THEN random_plain(b, id, strict)
                  ELSE random_split(b, id, 1, strict)
        ELSE fixed(b, id, strict)

RECURSIVE build_terms(_, _, _)
build_terms(b, mdl, strict) ==
    IF b.err # "none" \/ mdl = <<>> THEN b
    ELSE build_terms(term(b, Head(mdl), strict), Tail(mdl), strict)

\* default_priors['sigma'] of bambi.priors
default_priors_sigma == [name |-> "HalfCauchy", args |-> [beta |-> 5]]

\* the residual sigma and the likelihood y_pred
likelihood(b) ==
    LET b1 == build_dist(b, "sigma", default_priors_sigma.name, <<>>,
                         default_priors_sigma.args)
    IN  IF b1.err # "none" THEN b1
        ELSE Register(b1, [name |-> "y_pred", family |-> "Normal",
                           shape |-> <<NRows>>,
                           params |-> [mu |-> b1.mu, sd |-> RV("sigma")],
                           observed |-> TRUE])

\* a build that attaches the residual sigma and the likelihood before it
\* handles the terms
build_likelihood_first(b, mdl, rst, strict) ==
    LET b0 == IF rst THEN reset(b) ELSE b
        b1 == likelihood(b0)
    IN  IF b1.err # "none" THEN b1 ELSE build_terms(b1, mdl, strict)

\* build(model, reset)
build(b, mdl, rst, strict) ==
    LET b0 == IF rst THEN reset(b) ELSE b
        b1 == build_terms(b0, mdl, strict)
    IN  IF b1.err # "none" THEN b1 ELSE likelihood(b1)

(* ------------------------------- run ---------------------------------- *)

\* pm.sample(draws, **kwargs) inside `with self.model`: draws values of
\* every unobserved variable of the pm.Model
sample(scope, draws, kwargs) ==
    [kind |-> "trace", draws |-> draws, kwargs |-> kwargs,
     vars |-> {scope[i].name : i \in {j \in 1..Len(scope) :
                                         ~scope[j].observed}}]

\* kwargs.get('samples', 1000): 'samples' stays among the kwargs
pop_samples_peek(kwargs) ==
    [samples |-> IF "samples" \in DOMAIN kwargs THEN kwargs.samples
                 ELSE DefaultSamples,
     rest |-> kwargs]

\* kwargs.pop('samples', 1000): the value taken and the kwargs left
pop_samples(kwargs) ==
    IF "samples" \in DOMAIN kwargs
    THEN [samples |-> kwargs.samples,
          rest |-> [k \in DOMAIN kwargs \ {"samples"} |-> kwargs[k]]]
    ELSE [samples |-> DefaultSamples, rest |-> kwargs]

\* run(**kwargs): the trace stored, and the value returned
run(scope, kwargs) ==
    LET p == pop_samples(kwargs)
    IN  [trace |-> sample(scope, p.samples, p.rest), ret |-> NoneValue]

(* ----------------------------- actions -------------------------------- *)

Self == [model |-> model, mu |-> mu, dists |-> dists,
         shared_params |-> shared_params, terms |-> terms, args |-> args,
         err |-> "none"]

Store(b) ==
    /\ model' = b.model
    /\ mu' = b.mu
    /\ dists' = b.dists
    /\ shared_params' = b.shared_params
    /\ terms' = b.terms
    /\ args' = b.args

\* the backend after __init__, and the term objects of the caller
Start(pool, companions) ==
    /\ \E t1 \in pool, t2 \in companions :
          terms = [i \in TermIds |-> IF i = 1 THEN t1 ELSE t2]
    /\ args = [a \in ArgIds |-> [sd |-> Absent]]
    /\ model = <<>>
    /\ mu = <<>>
    /\ dists = <<>>
    /\ shared_params = <<>>
    /\ trace = NoTrace
    /\ lastCall = [op |-> "init"]

Init == Start(GeneralTerms, Companions)

InitSplit == Start(SplitTerms, FixedCompanions)

InitPrior == Start(PriorTerms, Companions)

Reset ==
    /\ Store(reset(Self))
    /\ lastCall' = [op |-> "reset", raised |-> "none", ret |-> NoneValue]
    /\ UNCHANGED trace

\* a dot product of mu whose operands disagree in size
Mismatched(b) ==
    \E i \in 1..Len(b.mu) : Last(b.mu[i].mat.shape) # b.mu[i].size

\* build(model, reset) for a reset among flags
Build(flags) ==
    \E mdl \in Models, rst \in flags :
      LET lenient == build(Self, mdl, rst, FALSE)
      IN  \E strict \in IF Mismatched(lenient) THEN BOOLEAN ELSE {FALSE} :
            LET b == IF strict THEN build(Self, mdl, rst, TRUE) ELSE lenient
            IN  /\ Store(b)
                /\ lastCall' = [op |-> "build", model |-> mdl, reset |-> rst,
                                raised |-> b.err, ret |-> NoneValue]
                /\ UNCHANGED trace

\* a run() that leaves a fresh backend behind once the trace is drawn
Run_reset ==
    \E kwargs \in Kwargs :
      LET r == run(model, kwargs)
      IN  /\ trace' = r.trace
          /\ lastCall' = [op |-> "run", kwargs |-> kwargs,
                          raised |-> "none", ret |-> r.ret]
          /\ Store(reset(Self))

Run ==
    \E kwargs \in Kwargs :
      LET r == run(model, kwargs)
      IN  /\ trace' = r.trace
          /\ lastCall' = [op |-> "run", kwargs |-> kwargs,
                          raised |-> "none", ret |-> r.ret]
          /\ UNCHANGED <<terms, args, model, mu, dists, shared_params>>

Next == Reset \/ Build(BOOLEAN) \/ Run

\* the caller leaves reset at its default, True
NextDefault == Reset \/ Build({TRUE}) \/ Run

Spec == Init /\ [][Next]_vars

SpecSplit == InitSplit /\ [][NextDefault]_vars

SpecPrior == InitPrior /\ [][Next]_vars

(* --------------------------- properties ------------------------------- *)

Range(f) == {f[i] : i \in DOMAIN f}

\* the last call was a build() that returned
Done == lastCall.op = "build" /\ lastCall.raised = "none"

\* the term objects of the model of the last build()
Built == {terms[id] : id \in Range(lastCall.model)}

\* the <label>_<level> names of a term with split_by
LevelLabels(t) ==
    {t.label \o "_" \o t.split_by.levels[i] : i \in 1..Len(t.split_by.levels)}

\* the names of the sigma distributions a term stands for
SigmaNames(t) ==
    IF ~t.random THEN {}
    ELSE IF t.split_by = None THEN {"sigma_" \o t.label}
    ELSE {"sigma_" \o n : n \in LevelLabels(t)}

\* the names of the coefficient and effect vectors a term stands for
CoefNames(t) ==
    IF ~t.random THEN {"b_" \o t.label}
    ELSE IF t.split_by = None THEN {"u_" \o t.label}
    ELSE {"u_" \o n : n \in LevelLabels(t)}

\* the names a model stands for, 'sigma' and 'y_pred' included
ExpectedNames(mdl) ==
    UNION {SigmaNames(terms[id]) \cup CoefNames(terms[id]) : id \in Range(mdl)}
      \cup {"sigma", "y_pred"}

\* the vectors whose contributions make up mu
MuVecs == {mu[i].vec : i \in 1..Len(mu)}

\* C1: after build(M1) and then build(M2), both with reset=True, the names
\* registered in the pm.Model are exactly the names derived from the terms
\* of M2 plus 'sigma' and 'y_pred', and mu is the sum of one contribution
\* per coefficient or effect vector of M2 and of nothing else.
C1_SecondBuildOnly ==
    (Done /\ lastCall.reset) =>
        /\ Names(model) = ExpectedNames(lastCall.model)
        /\ MuVecs = UNION {CoefNames(t) : t \in Built}
        /\ Len(mu) = Cardinality(MuVecs)

\* build(M1) returned and was sampled, then build(M2) of another term returned
C1_Witness ==
    /\ Done /\ lastCall.reset /\ lastCall.model = <<2>>
    /\ trace # NoTrace
    /\ trace.vars = ExpectedNames(<<1>>) \ {"y_pred"}
    /\ Names(model) \cap ExpectedNames(<<1>>) = {"sigma", "y_pred"}
    /\ mu # <<>>

\* the number of columns of v with a nonzero row in the slice of level i
ActiveCount(v, i) ==
    Cardinality({c \in 1..v.shape[2] :
                    \E r \in 1..v.shape[1] : <<r, c, i>> \in v.nz})

\* the random terms with split_by of the model of the last build()
BuiltSplit == {t \in Built : t.random /\ t.split_by # None}

\* the names of the pm.Model made of a prefix, a label and some level name
NamesOf(prefix, label) ==
    {n \in Names(model) :
        \E lv \in Range(LevelNames) : n = prefix \o label \o "_" \o lv}

\* C2: for every random term with a split_by factor of L levels, build
\* registers exactly L (sigma, effect vector) pairs, named
\* 'sigma_<label>_<level>' and 'u_<label>_<level>' after the levels, and
\* the effect vector of level i has as many entries as the slice of level i
\* has columns with a nonzero row.
C2_LevelPairs ==
    Done =>
      \A t \in BuiltSplit :
        /\ \A i \in 1..Len(t.split_by.levels) :
             LET n == t.label \o "_" \o t.split_by.levels[i]
             IN  /\ ("sigma_" \o n) \in Names(model)
                 /\ ("u_" \o n) \in Names(model)
                 /\ Var(model, "u_" \o n).shape = <<ActiveCount(t.values, i)>>
        /\ Cardinality(NamesOf("sigma_", t.label)) = Len(t.split_by.levels)
        /\ Cardinality(NamesOf("u_", t.label)) = Len(t.split_by.levels)

\* a built term of two levels, one of which uses a part of the columns
C2_Witness ==
    /\ Done
    /\ \E t \in BuiltSplit :
         /\ Len(t.split_by.levels) = 2
         /\ \E i \in 1..2 :
              /\ ActiveCount(t.values, i) > 0
              /\ ActiveCount(t.values, i) < t.values.shape[2]
              /\ Var(model, "u_" \o t.label \o "_" \o t.split_by.levels[i]).shape
                   = <<ActiveCount(t.values, i)>>

\* the random terms without split_by of the model of the last build()
BuiltPlain == {t \in Built : t.random /\ t.split_by = None}

\* the positions of the registrations of a name in the pm.Model
Registrations(name) == {i \in 1..Len(model) : model[i].name = name}

\* the positions of the contributions of a vector to mu
Contributions(vec) == {i \in 1..Len(mu) : mu[i].vec = vec}

\* C3: for every random term without split_by, build registers exactly one
\* 'sigma_<label>' and exactly one 'u_<label>' of size n_cols, hands the
\* sigma to the effect vector as its 'sd', and adds to mu exactly the
\* contribution dot(values, u).
C3_PlainRandom ==
    Done =>
      \A t \in BuiltPlain :
        /\ Cardinality(Registrations("sigma_" \o t.label)) = 1
        /\ Cardinality(Registrations("u_" \o t.label)) = 1
        /\ Var(model, "u_" \o t.label).shape = <<t.values.shape[2]>>
        /\ Var(model, "u_" \o t.label).params.sd
             = [kind |-> "rv", name |-> "sigma_" \o t.label, live |-> TRUE]
        /\ Cardinality(Contributions("u_" \o t.label)) = 1
        /\ \A i \in Contributions("u_" \o t.label) :
             /\ mu[i].mat = t.values
             /\ mu[i].size = t.values.shape[2]
             /\ mu[i].shape = <<t.values.shape[1]>>

\* a built random term without split_by of more than one column
C3_Witness ==
    /\ Done
    /\ \E t \in BuiltPlain :
         /\ t.values.shape[2] > 1
         /\ Var(model, "u_" \o t.label).shape = <<t.values.shape[2]>>
         /\ Contributions("u_" \o t.label) # {}

\* the fixed terms of the model of the last build()
BuiltFixed == {t \in Built : ~t.random}

\* C4: for every fixed term, build registers one 'b_<label>' whose size is
\* the number of columns of the matrix that is multiplied with it, which for
\* a term with split_by is the values after the squeeze.
C4_CoefficientSize ==
    (lastCall.op = "build" /\ lastCall.reset) =>
      \A t \in BuiltFixed :
        ("b_" \o t.label) \in Names(model) =>
          /\ Cardinality(Registrations("b_" \o t.label)) = 1
          /\ Var(model, "b_" \o t.label).shape = <<Last(t.values.shape)>>

\* a prior with a 'sigma' entry that has both a 'name' and an 'args'
HasSigma(prior) ==
    /\ "sigma" \in DOMAIN prior
    /\ {"name", "args"} \subseteq DOMAIN prior.sigma

\* C5: the sigma prior of a random term is the pair (name, args) of the
\* 'sigma' entry of its prior if that entry has both, and else HalfCauchy
\* with the single argument beta = 10; a field of a partial entry is never
\* combined with a default field.
C5_SigmaAtomic ==
    Done =>
      \A t \in {u \in Built : u.random} :
        \A n \in SigmaNames(t) :
          /\ n \in Names(model)
          /\ IF HasSigma(t.prior)
             THEN /\ Var(model, n).family = t.prior.sigma.name
                  /\ Var(model, n).params = t.prior.sigma.args
             ELSE /\ Var(model, n).family = "HalfCauchy"
                  /\ Var(model, n).params = [beta |-> 10]

\* a built random term whose 'sigma' entry has a 'name' but no 'args'
C5_Witness ==
    /\ Done
    /\ \E t \in {u \in Built : u.random} :
         /\ "sigma" \in DOMAIN t.prior
         /\ DOMAIN t.prior.sigma = {"name"}
         /\ \A n \in SigmaNames(t) : Var(model, n).family = "HalfCauchy"

\* C6: a build() that meets an unknown distribution family raises, attaches
\* no likelihood, and leaves a build state that run() does not sample
\* before a reset().
C6_FailedBuildUnusable ==
    [][/\ (lastCall'.op = "build" /\ lastCall'.raised = "UnknownDistribution")
          => (Registrations("y_pred")' \subseteq Registrations("y_pred"))
       /\ (/\ lastCall.op = "build" /\ lastCall.reset
           /\ lastCall.raised = "UnknownDistribution"
           /\ model # <<>>
           /\ lastCall'.op = "run")
          => trace' = trace]_vars

\* C7: run() returns the trace of the sampling engine and stores the same
\* trace on the backend.
C7_RunReturnsTrace ==
    lastCall.op = "run" => (lastCall.ret = trace /\ trace # NoTrace)

\* the unobserved variables of the pm.Model
FreeNames == {model[i].name : i \in {j \in 1..Len(model) : ~model[j].observed}}

\* C8: run(**kwargs) asks the sampling engine for kwargs['samples'] draws,
\* or for 1000 draws without a 'samples' keyword, and hands it every other
\* keyword unchanged and never a 'samples' keyword; the trace then holds
\* that many draws of every unobserved variable of the pm.Model.
C8_SamplesKeyword ==
    lastCall.op = "run" =>
      LET kw == lastCall.kwargs
      IN  /\ trace.draws = IF "samples" \in DOMAIN kw THEN kw.samples ELSE 1000
          /\ DOMAIN trace.kwargs = DOMAIN kw \ {"samples"}
          /\ \A k \in DOMAIN trace.kwargs : trace.kwargs[k] = kw[k]
          /\ trace.vars = FreeNames

\* run(samples=s, njobs=2) of a built model
C8_Witness ==
    /\ lastCall.op = "run"
    /\ DOMAIN lastCall.kwargs = {"samples", "njobs"}
    /\ "y_pred" \in Names(model)
    /\ trace.draws = lastCall.kwargs.samples
    /\ trace.vars # {}

\* the levels of a term without an active column
EmptyLevels(t) ==
    {i \in 1..Len(t.split_by.levels) : ActiveCount(t.values, i) = 0}

\* C9: a level without an active column does not make build fail: the
\* sigma of the level and an effect vector of size 0 are registered, the
\* contribution of the level is the zero vector, and build goes on to the
\* levels and terms that follow.
C9_EmptyLevel ==
    (/\ lastCall.op = "build" /\ lastCall.reset
     /\ lastCall.model[1] = 1
     /\ terms[1].random /\ terms[1].split_by # None
     /\ terms[1].prior.name \in KnownFamilies
     /\ EmptyLevels(terms[1]) # {}) =>
      LET t == terms[1]
      IN  /\ \A i \in 1..Len(t.split_by.levels) :
               LET n == t.label \o "_" \o t.split_by.levels[i]
               IN  /\ ("sigma_" \o n) \in Names(model)
                   /\ ("u_" \o n) \in Names(model)
                   /\ Cardinality(Contributions("u_" \o n)) = 1
          /\ \A i \in EmptyLevels(t) :
               LET n == t.label \o "_" \o t.split_by.levels[i]
               IN  /\ Var(model, "u_" \o n).shape = <<0>>
                   /\ \A j \in Contributions("u_" \o n) :
                        /\ mu[j].mat.nz = {}
                        /\ mu[j].mat.shape = <<t.values.shape[1], 0>>
                        /\ mu[j].shape = <<t.values.shape[1], 1>>
          /\ lastCall.raised \notin {"ShapeMismatch", "IndexError"}
          /\ lastCall.model = <<1>> => lastCall.raised = "none"
          /\ (/\ lastCall.model = <<1, 2>>
              /\ ~terms[2].random
              /\ terms[2].prior.name \in KnownFamilies)
             => (lastCall.raised = "none" /\ ("b_" \o terms[2].label) \in Names(model))

\* a built model whose first term has no active column at its first level,
\* a second level, and a term after it
C9_Witness ==
    /\ Done /\ lastCall.reset /\ lastCall.model = <<1, 2>>
    /\ terms[1].random /\ terms[1].split_by # None
    /\ 1 \in EmptyLevels(terms[1])
    /\ Len(terms[1].split_by.levels) = 2
    /\ Var(model, "u_" \o terms[1].label \o "_" \o terms[1].split_by.levels[1]).shape
         = <<0>>
    /\ Len(mu) = 3

\* C10: build(model, reset=False) after a build() that returned keeps every
\* registered distribution and mu, adds the contributions of the new model,
\* and returns.
C10_ExtendInPlace ==
    [][(Done /\ lastCall'.op = "build" /\ ~lastCall'.reset) =>
          /\ lastCall'.raised = "none"
          /\ Len(model') >= Len(model)
          /\ SubSeq(model', 1, Len(model)) = model
          /\ Len(mu') >= Len(mu)
          /\ SubSeq(mu', 1, Len(mu)) = mu]_vars

\* C11: for a random term with split_by, the effect vector of each level is
\* built with the sigma of that same level as its 'sd', never without a
\* sigma and never with the sigma of another level or term.
C11_LevelSigma ==
    Done =>
      \A t \in BuiltSplit :
        \A n \in LevelLabels(t) :
          Var(model, "u_" \o n).params.sd
            = [kind |-> "rv", name |-> "sigma_" \o n, live |-> TRUE]

\* C12: every contribution added to mu is a column vector with one row per
\* observation, whatever the kinds of the terms, so that mu never becomes an
\* observations-by-observations matrix.
C12_ColumnVectors ==
    Done => \A i \in 1..Len(mu) : mu[i].shape = <<NRows, 1>>

\* the names a term stands for
TermNames(t) == SigmaNames(t) \cup CoefNames(t)

\* the strings that follow 'sigma_' and 'u_' in the names of a random term
EffectLabels(t) ==
    IF ~t.random THEN {}
    ELSE IF t.split_by = None THEN {t.label}
    ELSE LevelLabels(t)

\* two terms of the model of the last build() share an effect label
Clash ==
    \E i, j \in Range(lastCall.model) :
        i # j /\ EffectLabels(terms[i]) \cap EffectLabels(terms[j]) # {}

\* C13 as stated: in a build pass over terms with pairwise distinct labels
\* the names derived from the terms and the names 'sigma' and 'y_pred' are
\* pairwise distinct, so that no registration meets a name already taken.
C13_DistinctNames ==
    (lastCall.op = "build" /\ lastCall.reset) =>
      /\ \A i, j \in Range(lastCall.model) :
           i # j => TermNames(terms[i]) \cap TermNames(terms[j]) = {}
      /\ \A i \in Range(lastCall.model) :
           TermNames(terms[i]) \cap {"sigma", "y_pred"} = {}
      /\ lastCall.raised # "DuplicateName"

\* C13, amended: distinct labels are not enough. The names of a build pass
\* are pairwise distinct when no two random terms share an effect label
\* (<label> without split_by, <label>_<level> with it); when two do, the
\* build raises. In every case a name is held once in the scope, and a
\* build that extends a scope leaves the distributions it found in place.
C13_DistinctUnlessClash ==
    [][lastCall'.op = "build" =>
         /\ Cardinality(Names(model')) = Len(model')
         /\ ~lastCall'.reset =>
              /\ Len(model') >= Len(model)
              /\ SubSeq(model', 1, Len(model)) = model
         /\ (lastCall'.reset /\ ~Clash') =>
              /\ \A i, j \in Range(lastCall'.model) :
                   i # j => TermNames(terms'[i]) \cap TermNames(terms'[j]) = {}
              /\ \A i \in Range(lastCall'.model) :
                   TermNames(terms'[i]) \cap {"sigma", "y_pred"} = {}
              /\ lastCall'.raised # "DuplicateName"
         /\ (lastCall'.reset /\ Clash') => lastCall'.raised # "none"]_vars

\* a build over 'x' split by the level 'a' and the random term 'x_a' has
\* stopped at the second 'sigma_x_a'
C13_Witness ==
    /\ lastCall.op = "build"
    /\ lastCall.reset
    /\ Clash
    /\ lastCall.raised = "DuplicateName"
    /\ Cardinality(Registrations("sigma_x_a")) = 1

\* C14: when build() returns, dists maps the label of every distribution
\* registered during the build to that distribution.
C14_DistsRegistry ==
    Done =>
      /\ DOMAIN dists = Names(model)
      /\ \A n \in Names(model) : dists[n] = Var(model, n)

\* C15: in a build that returns, 'sigma' (from the default-priors table)
\* and 'y_pred' are each registered once, after the names of every term;
\* the mean of y_pred is the mu that holds the contribution of every term,
\* its sd is that sigma, and it is observed.
C15_LikelihoodLast ==
    Done =>
      /\ Len(model) >= 2
      /\ Registrations("sigma") = {Len(model) - 1}
      /\ Registrations("y_pred") = {Len(model)}
      /\ \A t \in Built : \A n \in TermNames(t) :
           /\ Registrations(n) # {}
           /\ \A i \in Registrations(n) : i < Len(model) - 1
      /\ \A t \in Built : CoefNames(t) \subseteq MuVecs
      /\ model[Len(model) - 1].family = default_priors_sigma.name
      /\ model[Len(model) - 1].params = default_priors_sigma.args
      /\ model[Len(model)].params = [mu |-> mu, sd |-> RV("sigma")]
      /\ model[Len(model)].observed

\* a build over two terms has returned with both contributions in the mean
\* of the likelihood
C15_Witness ==
    /\ Done
    /\ Len(lastCall.model) = 2
    /\ Len(mu) >= 2
    /\ Var(model, "y_pred").params.mu = mu
    /\ Registrations("sigma") = {Len(model) - 1}

\* C16: run() leaves the pm.Model with its registered distributions, mu,
\* dists and shared_params as they were and changes only the stored trace;
\* a run() that follows a run() draws the same variables of the same model.
C16_RunFrame ==
    [][lastCall'.op = "run" =>
         /\ model' = model
         /\ mu' = mu
         /\ dists' = dists
         /\ shared_params' = shared_params
         /\ trace'.kind = "trace"
         /\ trace'.vars = FreeNames
         /\ lastCall.op = "run" => trace'.vars = trace.vars]_vars

\* run() has drawn from the model of a build that returned
C16_Witness ==
    /\ lastCall.op = "run"
    /\ "y_pred" \in Names(model)
    /\ mu # <<>>
    /\ trace.kind = "trace"
    /\ trace.vars = FreeNames

\* a prior 'args' mapping without the scope its sigma belongs to
Plain(a) == [sd |-> [k \in DOMAIN a.sd \ {"live"} |-> a.sd[k]]]

\* C17: build() leaves the model it is given as it was: the values tensor
\* of every term and every prior 'args' mapping are the same after the
\* call as before it.
C17_ModelUntouched ==
    [][lastCall'.op = "build" =>
         /\ terms' = terms
         /\ \A a \in ArgIds : Plain(args'[a]) = Plain(args[a])
         /\ \A i \in 1..Len(model') :
              model'[i].name \in {"b_" \o terms[id].label : id \in TermIds}
                => model'[i].params.sd = Absent]_vars

\* the name, family, size and parameters of every unobserved variable of a
\* scope, and the names of the observed ones
Summary(scope) ==
    {IF scope[i].observed THEN [name |-> scope[i].name]
     ELSE [name |-> scope[i].name, family |-> scope[i].family,
           shape |-> scope[i].shape, params |-> scope[i].params] :
       i \in 1..Len(scope)}

\* C18: a build(model) with reset=True that follows a build of the same
\* model object with reset=True returns as the first did and registers the
\* same names with the same sizes and the same parameters.
C18_Repeatable ==
    [][(/\ Done
        /\ lastCall.reset
        /\ lastCall'.op = "build"
        /\ lastCall'.reset
        /\ lastCall'.model = lastCall.model) =>
         /\ lastCall'.raised = "none"
         /\ Summary(model') = Summary(model)]_vars

====
